---- MODULE Spec2Model ----
(***************************************************************************)
(* Model of the MorganMap tour pipeline: the Tour Orchestrator             *)
(* (src/src/App.tsx, handleExtractTour), the Extraction Client             *)
(* (src/src/services/ai.ts), the Geocoding Client                          *)
(* (src/src/services/geocoding.ts) and the route builder of the Distance   *)
(* Engine (src/src/services/distance.ts).                                  *)
(*                                                                         *)
(* JavaScript runs handleExtractTour on one thread; the code between two   *)
(* awaits is atomic.  Each action below is therefore one resumption of the *)
(* async function: it consumes the reply of the call it was suspended on   *)
(* and runs the handler up to the next await (or to its end).              *)
(***************************************************************************)
EXTENDS Integers, Sequences, FiniteSets, TLC

\* ------------------------------------------------------------------ bounds
MaxVenues == 2      \* longest venue list an extraction reply carries
MaxDate == 2        \* start dates are the days 1..MaxDate
MaxSpan == 2        \* a venue's run ends 0..MaxSpan days after it starts
MaxRoutes == 3      \* longest route list handed to calculateTotalDistance
MaxTenths == 3      \* a route is 0..MaxTenths tenths of a kilometre long
MaxKmTenths == 60   \* kmToMiles is applied to 0..MaxKmTenths tenths of a km

\* ------------------------------------------------------------- JS values
Null == "null"                  \* a null / undefined string or message
NoName == <<>>                  \* venue.name absent or ''
NoCity == ""                    \* venue.city absent or ''
NaN == 999                      \* parseFloat of a non-numeric string
Undefined == 998                \* an absent latitude / longitude property

\* a venue name is modelled as <<"Theatre", k>>, the placeholder
\* `Venue ${i + 1}` as <<"Venue", i + 1>>
VenueName(k) == <<"Theatre", k>>

\* JS truthiness of a coordinate value: 0, NaN and undefined are falsy
Truthy(x) == x \notin {0, NaN, Undefined}

\* typeof x === 'number' (NaN is a number, undefined is not)
IsNumber(x) == x # Undefined

MsgFetching == "Fetching webpage content..."
MsgExtracting == "Extracting tour data with AI..."
MsgGeocodingAll == "Geocoding N venues..."
MsgGeocodingOne == "Geocoding venue i of N..."
MsgRoutes == "Calculating routes..."

ErrFetchGeneric == "Failed to fetch webpage. The website may be blocking requests or the URL is invalid."
ErrProxyBody == "proxy error body"
ErrNetwork == "Failed to fetch"
ErrNetworkError == "NetworkError when attempting to fetch resource."
ErrLoadFailed == "Load failed"
ErrFetchUrlFailed == "Failed to fetch URL: Not Found"
ErrInvalidData == "Invalid data received from AI service"
ErrNoVenues == "No venues found in the tour data. The page may not contain tour information."
ErrNoGeocode == "Failed to geocode any venues. The addresses may be incomplete or invalid."
ErrCannotConnect == "Cannot connect to backend server. Make sure the backend is running on backendUrl"
ErrExtractGeneric == "Failed to extract tour data"
ErrBackendBody == "backend error body"
ErrUndefinedVenue == "Cannot read properties of undefined (reading 'startDate')"
ErrNominatim == "Nominatim API request failed"
ErrNoResults == "No results found"

\* ------------------------------------------------------------ input sets
Dates == 1..MaxDate

\* venues as the extraction reply carries them (no usable coordinates yet)
ExtractedVenue(k) ==
  {[id |-> k, name |-> n, city |-> c, startDate |-> d, endDate |-> d,
    latitude |-> 0, longitude |-> 0] :
     n \in {NoName, VenueName(k)}, c \in {NoCity, "London"}, d \in Dates}

RECURSIVE VenueLists(_)
VenueLists(n) ==
  IF n = 0 THEN {<<>>}
  ELSE {Append(vs, v) : vs \in VenueLists(n - 1), v \in ExtractedVenue(n - 1)}

AllVenueLists == UNION {VenueLists(n) : n \in 0..MaxVenues}

\* A JSON body of a 2xx reply of POST /api/extract-tour.  isObject is FALSE
\* for the body `null`; venuesIsArray tells whether the property `venues`
\* is present as an array; hasData whether the property `data` is present.
NoData == [name |-> Null, venuesIsArray |-> FALSE, venues |-> <<>>]

NullBody ==
  [isObject |-> FALSE, name |-> Null, venuesIsArray |-> FALSE, venues |-> <<>>,
   hasData |-> FALSE, data |-> NoData]

\* {name, venues}: the Partial<Tour> that extractTourData declares
FlatBody(hasVenues, vs) ==
  [isObject |-> TRUE, name |-> "Tour", venuesIsArray |-> hasVenues, venues |-> vs,
   hasData |-> FALSE, data |-> NoData]

\* {success: true, data: tourData, provider}: what server.js sends
EnvelopeBody(hasVenues, vs) ==
  [isObject |-> TRUE, name |-> Null, venuesIsArray |-> FALSE, venues |-> <<>>,
   hasData |-> TRUE,
   data |-> [name |-> "Tour", venuesIsArray |-> hasVenues, venues |-> vs]]

ExtractBodies ==
  {NullBody, FlatBody(FALSE, <<>>), EnvelopeBody(FALSE, <<>>)}
  \cup {FlatBody(TRUE, vs) : vs \in AllVenueLists}
  \cup {EnvelopeBody(TRUE, vs) : vs \in AllVenueLists}

\* coordinates a provider reply can parse to
Coords == {0, 1, NaN}

\* replies of the Nominatim search endpoint as geocodeWithNominatim sees them
ProviderReplies ==
  [kind : {"network", "http_error", "empty"}, lat : {Undefined}, lon : {Undefined}]
  \cup [kind : {"match"}, lat : Coords, lon : Coords]

\* ---------------------------------------------------------- Geocoding Client
GeocodeFailure(msg) ==
  [success |-> FALSE, latitude |-> Undefined, longitude |-> Undefined, error |-> msg]

\* geocodeWithNominatim: "threw" stands for a rejected promise
GeocodeWithNominatim(reply) ==
  CASE reply.kind = "network" ->
         [threw |-> TRUE, message |-> ErrNetwork, value |-> GeocodeFailure(Null)]
    [] reply.kind = "http_error" ->
         [threw |-> TRUE, message |-> ErrNominatim, value |-> GeocodeFailure(Null)]
    [] reply.kind = "empty" ->
         [threw |-> FALSE, message |-> Null, value |-> GeocodeFailure(ErrNoResults)]
    [] OTHER ->
         [threw |-> FALSE, message |-> Null,
          value |-> [success |-> TRUE, latitude |-> reply.lat,
                     longitude |-> reply.lon, error |-> Null]]

ErrOpenCageKey == "OpenCage API key required"
ErrOpenCage == "OpenCage API request failed"
ErrGoogleKey == "Google Maps API key required"
ErrGoogle == "Google Maps API request failed"
StatusOverLimit == "OVER_QUERY_LIMIT"

GeocodeProviders == {"nominatim", "opencage", "google"}

\* replies of any provider; "status" is a Google reply whose status is
\* neither OK nor ZERO_RESULTS
AllProviderReplies ==
  ProviderReplies \cup [kind : {"status"}, lat : {Undefined}, lon : {Undefined}]

\* geocodeWithOpenCage
GeocodeWithOpenCage(hasKey, reply) ==
  CASE ~hasKey ->
         [threw |-> TRUE, message |-> ErrOpenCageKey, value |-> GeocodeFailure(Null)]
    [] hasKey /\ reply.kind = "network" ->
         [threw |-> TRUE, message |-> ErrNetwork, value |-> GeocodeFailure(Null)]
    [] hasKey /\ reply.kind \in {"http_error", "status"} ->
         [threw |-> TRUE, message |-> ErrOpenCage, value |-> GeocodeFailure(Null)]
    [] hasKey /\ reply.kind = "empty" ->
         [threw |-> FALSE, message |-> Null, value |-> GeocodeFailure(ErrNoResults)]
    [] OTHER ->
         [threw |-> FALSE, message |-> Null,
          value |-> [success |-> TRUE, latitude |-> reply.lat,
                     longitude |-> reply.lon, error |-> Null]]

\* geocodeWithGoogle
GeocodeWithGoogle(hasKey, reply) ==
  CASE ~hasKey ->
         [threw |-> TRUE, message |-> ErrGoogleKey, value |-> GeocodeFailure(Null)]
    [] hasKey /\ reply.kind = "network" ->
         [threw |-> TRUE, message |-> ErrNetwork, value |-> GeocodeFailure(Null)]
    [] hasKey /\ reply.kind = "http_error" ->
         [threw |-> TRUE, message |-> ErrGoogle, value |-> GeocodeFailure(Null)]
    [] hasKey /\ reply.kind = "empty" ->
         [threw |-> FALSE, message |-> Null, value |-> GeocodeFailure(ErrNoResults)]
    [] hasKey /\ reply.kind = "status" ->
         [threw |-> FALSE, message |-> Null, value |-> GeocodeFailure(StatusOverLimit)]
    [] OTHER ->
         [threw |-> FALSE, message |-> Null,
          value |-> [success |-> TRUE, latitude |-> reply.lat,
                     longitude |-> reply.lon, error |-> Null]]

\* mutant: geocode has no try / catch, a throw of the provider call rejects
GeocodeCatchMissing(r) == r

\* the try / catch of geocode (lines 13-29): a throw of the provider call
\* becomes the value {success: false, error: message}
GeocodeCatch(r) ==
  IF r.threw
  THEN [threw |-> FALSE, message |-> Null, value |-> GeocodeFailure(r.message)]
  ELSE r

\* geocode of a service constructed with the given provider and key
GeocodeSettled(provider, hasKey, reply) ==
  GeocodeCatch(CASE provider = "nominatim" -> GeocodeWithNominatim(reply)
                 [] provider = "opencage" -> GeocodeWithOpenCage(hasKey, reply)
                 [] OTHER -> GeocodeWithGoogle(hasKey, reply))

\* geocode: the provider is 'nominatim' (App.tsx constructs the service
\* without arguments); a throw of the provider call becomes success: false
Geocode(reply) == GeocodeSettled("nominatim", FALSE, reply).value

\* --------------------------------------------------------- Extraction Client
\* replies of POST /api/extract-tour as the browser's fetch reports them
\* the messages of the TypeError a browser's fetch rejects with when the
\* request cannot be made (Chromium, Gecko, WebKit)
FetchRejections == {ErrNetwork, ErrNetworkError, ErrLoadFailed}

\* rejection is the message fetch rejected with (kind "network"), else Null
ExtractReplies ==
  [kind : {"network"}, rejection : FetchRejections, errorBody : {Null},
   body : {NullBody}]
  \cup [kind : {"http_error"}, rejection : {Null},
        errorBody : {Null, ErrBackendBody}, body : {NullBody}]
  \cup [kind : {"ok"}, rejection : {Null}, errorBody : {Null},
        body : ExtractBodies]

\* message.includes('Failed to fetch') || message.includes('NetworkError'),
\* for the messages of this model
MentionsFetchFailure(message) ==
  message \in {ErrNetwork, ErrNetworkError, ErrFetchUrlFailed}

\* the catch block of extractTourData (lines 45-54): the message of the
\* Error it throws for a caught Error with the given message
ExtractCatch(message) ==
  IF MentionsFetchFailure(message) THEN ErrCannotConnect ELSE message

\* extractTourData: on a 2xx reply it returns the parsed body itself
ExtractTourData(reply) ==
  CASE reply.kind = "network" ->
         [threw |-> TRUE, message |-> ExtractCatch(reply.rejection),
          value |-> NullBody]
    [] reply.kind = "http_error" ->
         [threw |-> TRUE,
          message |-> ExtractCatch(IF reply.errorBody # Null
                                   THEN reply.errorBody
                                   ELSE ErrExtractGeneric),
          value |-> NullBody]
    [] OTHER ->
         [threw |-> FALSE, message |-> Null, value |-> reply.body]

\* ------------------------------------------------------------ Distance Engine
\* calculateRoutes: one route per consecutive pair of the list it is given
CalculateRoutes(venues) ==
  [k \in 1..(IF Len(venues) = 0 THEN 0 ELSE Len(venues) - 1) |->
     [from |-> venues[k], to |-> venues[k + 1]]]

\* ---------------------------------------------------------------- Orchestrator
\* [...geocodedVenues].sort((a, b) => time(a.startDate) - time(b.startDate)):
\* Array.prototype.sort is stable, so equal dates keep their relative order
RECURSIVE InsertByStartDate(_, _)
InsertByStartDate(sorted, v) ==
  IF sorted = <<>> THEN <<v>>
  ELSE IF sorted[Len(sorted)].startDate - v.startDate <= 0
       THEN Append(sorted, v)
       ELSE Append(InsertByStartDate(SubSeq(sorted, 1, Len(sorted) - 1), v),
                   sorted[Len(sorted)])

\* mutant: the venues are published in extraction order
SortByStartDateUnsorted(venues) == venues

RECURSIVE SortByStartDate(_)
SortByStartDate(venues) ==
  IF venues = <<>> THEN <<>>
  ELSE InsertByStartDate(SortByStartDate(SubSeq(venues, 1, Len(venues) - 1)),
                         venues[Len(venues)])

\* 1000 * 60 * 60 * 24 (line 152)
MsPerDay == 86400000

\* new Date(date).getTime() of a date given as a day number
GetTime(date) == date * MsPerDay

\* Math.ceil(a / b) for b > 0
Ceil(a, b) == -((-a) \div b)

\* lines 147-153 and the date fields of completeTour (lines 159-161): the
\* dates come from the first and the last venue of the sorted list
TourDates(sortedVenues) ==
  LET firstVenue == sortedVenues[1]
      lastVenue == sortedVenues[Len(sortedVenues)]
  IN  [startDate |-> firstVenue.startDate,
       endDate |-> lastVenue.endDate,
       totalDurationDays |->
         Ceil(GetTime(lastVenue.endDate) - GetTime(firstVenue.startDate),
              MsPerDay)]

NullTour ==
  [isNull |-> TRUE, name |-> Null, venues |-> <<>>, routes |-> <<>>,
   startDate |-> 0, endDate |-> 0, totalDurationDays |-> 0]

\* events of a run, in the order the handler produces them
\* op "skip" / "call" / "ret": n is the venue's index; op "delay": n is the
\* milliseconds; op "routes": n is the length of the list handed to
\* calculateRoutes
Event(op, n, kind, success) ==
  [op |-> op, n |-> n, kind |-> kind, success |-> success]

\* ------------------------------------------------------------------ TourInput
ErrEnterUrl == "Please enter a URL"
ErrEnterValidUrl == "Please enter a valid URL (e.g., https://example.com)"

HttpsUrl == "https://example.com/tour"
FtpUrl == "ftp://example.com/tour"
NotAUrl == "not-a-valid-url"

\* a text of the input: pad tells whether white space surrounds the core
EmptyText == [pad |-> FALSE, core |-> ""]

UrlTexts ==
  {EmptyText, [pad |-> TRUE, core |-> ""], [pad |-> FALSE, core |-> NotAUrl],
   [pad |-> TRUE, core |-> HttpsUrl], [pad |-> FALSE, core |-> FtpUrl]}

\* String.prototype.trim
Trim(text) == text.core

\* new URL(s).protocol, or Null when the constructor throws
UrlProtocol(s) ==
  CASE s = HttpsUrl -> "https:"
    [] s = FtpUrl -> "ftp:"
    [] OTHER -> Null

\* mutant: every text passes the format check
IsValidUrlAlways(urlString) == TRUE

\* isValidUrl: the URL constructor does not throw
IsValidUrl(urlString) == UrlProtocol(urlString) # Null

\* no reply of POST /api/fetch-url received yet
NoFetchReply ==
  [kind |-> "none", errorBody |-> Null, bodyIsJson |-> FALSE, statusText |-> ""]

VARIABLES
  tour,            \* App state: the published Tour, or NullTour
  loading,         \* App state
  loadingMessage,  \* App state
  error,           \* App state: message or Null
  skippedVenues,   \* App state: names surfaced in the notice
  pc,              \* await the handler is suspended on, or "idle"
  extractedData,   \* local of handleExtractTour
  i,               \* local: loop index (0-based)
  geocodedVenues,  \* local
  skipped,         \* local
  backendReply,    \* history: last reply of POST /api/extract-tour
  trace,           \* history: events of the current / last run
  url,             \* TourInput state: the text of the input
  localError,      \* TourInput state: the validation message, or ""
  inFlight,        \* history: invocations of handleExtractTour not yet settled
  fetchReply,      \* history: last reply of POST /api/fetch-url
  geocodeResult,   \* local of the loop body (line 94), NoGeocodeResult outside
  input,           \* argument of the pure function under study (<<>>: none)
  output           \* its result (<<>>: not computed)

vars == <<tour, loading, loadingMessage, error, skippedVenues, pc,
          extractedData, i, geocodedVenues, skipped, backendReply, trace,
          url, localError, inFlight, fetchReply, geocodeResult, input, output>>

\* the variables the orchestrator owns
appVars == <<tour, loading, loadingMessage, error, skippedVenues>>

\* the variables of the pure-function specifications
pureVars == <<input, output>>

\* the variables of the application
runVars == <<tour, loading, loadingMessage, error, skippedVenues, pc,
             extractedData, i, geocodedVenues, skipped, backendReply, trace,
             url, localError, inFlight, fetchReply, geocodeResult>>

\* the value of geocodeResult outside the loop body
NoGeocodeResult == GeocodeFailure(Null)

NoReply ==
  [kind |-> "none", rejection |-> Null, errorBody |-> Null, body |-> NullBody]

InitApp ==
  /\ tour = NullTour
  /\ loading = FALSE
  /\ loadingMessage = ""
  /\ error = Null
  /\ skippedVenues = <<>>
  /\ pc = "idle"
  /\ extractedData = NullBody
  /\ i = 0
  /\ geocodedVenues = <<>>
  /\ skipped = <<>>
  /\ backendReply = NoReply
  /\ trace = <<>>
  /\ url = EmptyText
  /\ localError = ""
  /\ inFlight = 0
  /\ fetchReply = NoFetchReply
  /\ geocodeResult = NoGeocodeResult

Init ==
  /\ InitApp
  /\ input = <<>>
  /\ output = <<>>

\* the awaited promise of handleExtractTour resolves: handleExtract of
\* TourInput goes on with setUrl('') (TourInput.tsx:68-70)
Settled ==
  /\ url' = EmptyText
  /\ inFlight' = inFlight - 1
  /\ UNCHANGED localError

\* mutant: there is no finally block, a failed run leaves loading set
CatchNoFinally(msg) ==
  /\ error' = msg
  /\ loadingMessage' = ""
  /\ pc' = "idle"
  /\ Settled
  /\ UNCHANGED <<tour, loading, skippedVenues>>

\* mutant: the catch block leaves the progress message in place
CatchKeepsMessage(msg) ==
  /\ error' = msg
  /\ loading' = FALSE
  /\ pc' = "idle"
  /\ Settled
  /\ UNCHANGED <<tour, skippedVenues, loadingMessage>>

\* catch (err) { setError(err.message); setLoadingMessage('') }
\* finally { setLoading(false) }
Catch(msg) ==
  /\ error' = msg
  /\ loadingMessage' = ""
  /\ loading' = FALSE
  /\ pc' = "idle"
  /\ Settled
  /\ UNCHANGED <<tour, skippedVenues>>

\* lines 135-168 and the finally block: the code after the zero-geocoded
\* check.  Given an empty list, firstVenue is undefined and line 150 throws
\* a TypeError, after setSkippedVenues and calculateRoutes have run.
Publish(g, sk, tr) ==
  LET sortedVenues == SortByStartDate(g)
      routes == CalculateRoutes(sortedVenues)
  IN  IF sortedVenues = <<>>
      THEN /\ skippedVenues' = sk
           /\ trace' = Append(tr, Event("routes", 0, "", TRUE))
           /\ error' = ErrUndefinedVenue
           /\ loadingMessage' = ""
           /\ loading' = FALSE
           /\ pc' = "idle"
           /\ Settled
           /\ UNCHANGED tour
      ELSE /\ skippedVenues' = sk
           /\ tour' = [isNull |-> FALSE,
                       name |-> IF extractedData'.name # Null
                                THEN extractedData'.name
                                ELSE "Theatre Tour",
                       venues |-> sortedVenues,
                       routes |-> routes,
                       startDate |-> TourDates(sortedVenues).startDate,
                       endDate |-> TourDates(sortedVenues).endDate,
                       totalDurationDays |->
                         TourDates(sortedVenues).totalDurationDays]
           /\ trace' = Append(tr, Event("routes", Len(sortedVenues), "", TRUE))
           /\ loadingMessage' = ""
           /\ loading' = FALSE
           /\ pc' = "idle"
           /\ Settled
           /\ UNCHANGED error

\* mutant: the zero-geocoded check is missing
EndLoopUnchecked(g, sk, tr) ==
  /\ geocodedVenues' = g
  /\ skipped' = sk
  /\ Publish(g, sk, tr)

\* lines 131-133: the code that follows the for loop
EndLoop(g, sk, tr) ==
  /\ geocodedVenues' = g
  /\ skipped' = sk
  /\ IF Len(g) = 0
     THEN Catch(ErrNoGeocode) /\ trace' = tr
     ELSE Publish(g, sk, tr)

\* mutant: the placeholder of a nameless venue uses the 0-based index
RECURSIVE SkipInvalidZeroBased(_, _, _, _)
SkipInvalidZeroBased(venues, i0, sk, tr) ==
  IF i0 >= Len(venues) THEN [i |-> i0, skipped |-> sk, trace |-> tr]
  ELSE LET venue == venues[i0 + 1]
       IN  IF venue.name = NoName \/ venue.city = NoCity
           THEN SkipInvalidZeroBased(venues, i0 + 1,
                            Append(sk, IF venue.name # NoName THEN venue.name
                                       ELSE <<"Venue", i0>>),
                            Append(tr, Event("skip", i0, "", TRUE)))
           ELSE [i |-> i0, skipped |-> sk, trace |-> tr]

\* lines 77-81, repeated: from index i0 on, skip the venues without a name
\* or a city until a venue to geocode, or the end of the list, is reached
RECURSIVE SkipInvalid(_, _, _, _)
SkipInvalid(venues, i0, sk, tr) ==
  IF i0 >= Len(venues) THEN [i |-> i0, skipped |-> sk, trace |-> tr]
  ELSE LET venue == venues[i0 + 1]
       IN  IF venue.name = NoName \/ venue.city = NoCity
           THEN SkipInvalid(venues, i0 + 1,
                            Append(sk, IF venue.name # NoName THEN venue.name
                                       ELSE <<"Venue", i0 + 1>>),
                            Append(tr, Event("skip", i0, "", TRUE)))
           ELSE [i |-> i0, skipped |-> sk, trace |-> tr]

\* mutant: the primary call of the following venue is issued without
\* awaiting the one of the current venue
LoopFromParallel(venues, i0, g, sk, tr) ==
  LET r == SkipInvalid(venues, i0, sk, tr)
  IN  /\ i' = r.i
      /\ IF r.i >= Len(venues)
         THEN EndLoop(g, r.skipped, r.trace)
         ELSE /\ loadingMessage' = MsgGeocodingOne
              /\ geocodedVenues' = g
              /\ skipped' = r.skipped
              /\ trace' = IF r.i + 1 < Len(venues)
                          THEN r.trace \o <<Event("call", r.i, "primary", TRUE),
                                             Event("call", r.i + 1, "primary", TRUE)>>
                          ELSE Append(r.trace, Event("call", r.i, "primary", TRUE))
              /\ pc' = "primary"
              /\ UNCHANGED <<tour, loading, error, skippedVenues,
                             url, localError, inFlight>>

\* the for loop from index i0 up to its next await (line 94), or to its end
LoopFrom(venues, i0, g, sk, tr) ==
  LET r == SkipInvalid(venues, i0, sk, tr)
  IN  /\ i' = r.i
      /\ IF r.i >= Len(venues)
         THEN EndLoop(g, r.skipped, r.trace)
         ELSE /\ loadingMessage' = MsgGeocodingOne
              /\ geocodedVenues' = g
              /\ skipped' = r.skipped
              /\ trace' = Append(r.trace, Event("call", r.i, "primary", TRUE))
              /\ pc' = "primary"
              /\ UNCHANGED <<tour, loading, error, skippedVenues,
                             url, localError, inFlight>>

\* lines 125-129: the rate-limiting delay at the end of the loop body
\* mutant: the venues geocoded so far are shown while the loop goes on
AfterVenuePartial(g, sk, tr) ==
  IF i < Len(extractedData.venues) - 1
  THEN /\ geocodedVenues' = g
       /\ skipped' = sk
       /\ trace' = Append(tr, Event("delay", 1000, "", TRUE))
       /\ pc' = "delay"
       /\ tour' = [isNull |-> FALSE, name |-> "Theatre Tour", venues |-> g,
                   routes |-> <<>>, startDate |-> 0, endDate |-> 0,
                   totalDurationDays |-> 0]
       /\ UNCHANGED <<loading, loadingMessage, error, skippedVenues, i,
                      url, localError, inFlight>>
  ELSE /\ i' = i + 1
       /\ EndLoop(g, sk, tr)

\* lines 126-128 and the end of the loop body
AfterVenue(g, sk, tr) ==
  IF i < Len(extractedData.venues) - 1
  THEN /\ geocodedVenues' = g
       /\ skipped' = sk
       /\ trace' = Append(tr, Event("delay", 1000, "", TRUE))
       /\ pc' = "delay"
       /\ UNCHANGED <<tour, loading, loadingMessage, error, skippedVenues, i,
                      url, localError, inFlight>>
  ELSE /\ i' = i + 1
       /\ EndLoop(g, sk, tr)

\* the venue with the coordinates of a geocode result
WithCoordinates(venue, result) ==
  [venue EXCEPT !.latitude = result.latitude, !.longitude = result.longitude]

\* mutant: the length check of line 63 is missing
HasVenuesNoLength(data) == data.venuesIsArray

\* line 63, negated: the extracted data carries a non-empty venues array
HasVenues(data) == data.venuesIsArray /\ Len(data.venues) # 0

\* line 96: the primary result is taken as a success
PrimaryAccepted(result) ==
  result.success /\ Truthy(result.latitude) /\ Truthy(result.longitude)

\* mutant: the fallback result is not examined
FallbackAcceptedAlways(result) == TRUE

\* lines 112-113: the fallback result is taken as a success
FallbackAccepted(result) ==
  /\ result.success /\ Truthy(result.latitude) /\ Truthy(result.longitude)
  /\ IsNumber(result.latitude) /\ IsNumber(result.longitude)

\* ---------------------------------------------------------------- actions
\* mutant: the error of an earlier run is not cleared when a run starts
HandleExtractTourKeepsError ==
  /\ loading' = TRUE
  /\ skippedVenues' = <<>>
  /\ loadingMessage' = MsgFetching
  /\ pc' = "fetch"
  /\ extractedData' = NullBody
  /\ i' = 0
  /\ geocodedVenues' = <<>>
  /\ skipped' = <<>>
  /\ backendReply' = NoReply
  /\ fetchReply' = NoFetchReply
  /\ geocodeResult' = NoGeocodeResult
  /\ trace' = <<>>
  /\ inFlight' = inFlight + 1
  /\ UNCHANGED <<tour, url, error>>

\* handleExtractTour, lines 25-33, up to the await of the page fetch
HandleExtractTour ==
  /\ loading' = TRUE
  /\ error' = Null
  /\ skippedVenues' = <<>>
  /\ loadingMessage' = MsgFetching
  /\ pc' = "fetch"
  /\ extractedData' = NullBody
  /\ i' = 0
  /\ geocodedVenues' = <<>>
  /\ skipped' = <<>>
  /\ backendReply' = NoReply
  /\ fetchReply' = NoFetchReply
  /\ geocodeResult' = NoGeocodeResult
  /\ trace' = <<>>
  /\ inFlight' = inFlight + 1
  /\ UNCHANGED <<tour, url>>

\* handleExtract of TourInput (TourInput.tsx:47-68), up to the await of
\* onExtract
HandleExtract ==
  LET trimmedUrl == Trim(url)
  IN  IF trimmedUrl = "" \/ ~IsValidUrl(trimmedUrl)
      THEN /\ localError' = IF trimmedUrl = "" THEN ErrEnterUrl
                            ELSE ErrEnterValidUrl
           /\ UNCHANGED <<tour, loading, loadingMessage, error, skippedVenues,
                          pc, extractedData, i, geocodedVenues, skipped,
                          backendReply, trace, url, inFlight, fetchReply,
                          geocodeResult>>
      ELSE /\ localError' = ""
           /\ HandleExtractTour

\* the button is rendered without a tour (App.tsx:202) and is disabled
\* while loading or when the text is blank (TourInput.tsx:168)
ButtonEnabled == tour.isNull /\ ~loading /\ Trim(url) # ""

\* mutant: Enter is taken while loading
CanPressEnterAlways == tour.isNull

\* the input is rendered without a tour, is disabled while loading
\* (TourInput.tsx:150) and handleKeyPress tests !loading (TourInput.tsx:83)
CanPressEnter == tour.isNull /\ ~loading

\* a click on "Extract Tour"
ClickExtract ==
  /\ ButtonEnabled
  /\ HandleExtract
  /\ UNCHANGED pureVars

\* the Enter key in the input
KeyPressEnter ==
  /\ CanPressEnter
  /\ HandleExtract
  /\ UNCHANGED pureVars

\* handleInputChange (TourInput.tsx:91-97): the user edits the text
HandleInputChange ==
  /\ tour.isNull
  /\ ~loading
  /\ \E text \in UrlTexts : text # url /\ url' = text
  /\ localError' = ""
  /\ UNCHANGED <<tour, loading, loadingMessage, error, skippedVenues, pc,
                 extractedData, i, geocodedVenues, skipped, backendReply, trace,
                 inFlight, fetchReply, geocodeResult, input, output>>

\* replies of POST /api/fetch-url as the browser's fetch reports them; a
\* non-2xx reply has a JSON body (with or without an error property) or a
\* body that is not JSON
FetchReplies ==
  [kind : {"network", "ok"}, errorBody : {Null}, bodyIsJson : {FALSE},
   statusText : {""}]
  \cup [kind : {"http_error"}, errorBody : {Null, ErrProxyBody},
        bodyIsJson : {TRUE}, statusText : {"Bad Gateway"}]
  \cup [kind : {"http_error"}, errorBody : {Null}, bodyIsJson : {FALSE},
        statusText : {"", "Bad Gateway"}]

\* mutant: the status of the reply is not examined
FetchOkAlways(r) == r.kind # "network"

\* line 41: fetchResponse.ok
FetchOk(r) == r.kind = "ok"

\* lines 42-43: the message of the Error thrown for a non-2xx reply
FetchErrorMessage(r) ==
  LET errorData == IF r.bodyIsJson THEN r.errorBody
                   ELSE IF r.statusText # "" THEN r.statusText ELSE Null
  IN  IF errorData # Null THEN errorData ELSE ErrFetchGeneric

\* lines 33-56: the page-fetch proxy answers
FetchReturn ==
  /\ pc = "fetch"
  /\ \E r \in FetchReplies :
       /\ fetchReply' = r
       /\ IF r.kind = "network" THEN Catch(ErrNetwork)
          ELSE IF ~FetchOk(r) THEN Catch(FetchErrorMessage(r))
          ELSE /\ loadingMessage' = MsgExtracting
               /\ pc' = "extract"
               /\ UNCHANGED <<tour, loading, error, skippedVenues,
                              url, localError, inFlight>>
  /\ UNCHANGED <<extractedData, i, geocodedVenues, skipped, backendReply, trace,
                 geocodeResult>>
  /\ UNCHANGED pureVars

\* lines 56-94: extractTourData settles; validation; the loop starts
ExtractReturn ==
  /\ pc = "extract"
  /\ UNCHANGED <<fetchReply, geocodeResult>>
  /\ UNCHANGED pureVars
  /\ \E r \in ExtractReplies :
       LET x == ExtractTourData(r)
       IN  /\ backendReply' = r
           /\ extractedData' = x.value
           /\ IF x.threw \/ ~x.value.isObject \/ ~HasVenues(x.value)
              THEN /\ Catch(IF x.threw THEN x.message
                            ELSE IF ~x.value.isObject THEN ErrInvalidData
                            ELSE ErrNoVenues)
                   /\ UNCHANGED <<i, geocodedVenues, skipped, trace>>
              ELSE LoopFrom(x.value.venues, 0, <<>>, <<>>, <<>>)

\* a rejected geocode promise would be caught at line 169
GeocodeRejected(message) ==
  /\ Catch(message)
  /\ UNCHANGED <<i, geocodedVenues, skipped, trace>>

\* lines 94-129: the primary geocode call of venue i settles
PrimaryReturn ==
  /\ pc = "primary"
  /\ UNCHANGED <<extractedData, backendReply, fetchReply>>
  /\ UNCHANGED pureVars
  /\ \E reply \in ProviderReplies :
       LET settled == GeocodeSettled("nominatim", FALSE, reply)
           result == settled.value
           venue == extractedData.venues[i + 1]
           tr == Append(trace, Event("ret", i, "primary", result.success))
       IN  /\ geocodeResult' = result
           /\ IF settled.threw THEN GeocodeRejected(settled.message)
              ELSE IF PrimaryAccepted(result)
              THEN IF IsNumber(result.latitude) /\ IsNumber(result.longitude)
                   THEN AfterVenue(Append(geocodedVenues,
                                          WithCoordinates(venue, result)),
                                   skipped, tr)
                   ELSE AfterVenue(geocodedVenues, Append(skipped, venue.name), tr)
              ELSE /\ trace' = Append(tr, Event("call", i, "fallback", TRUE))
                   /\ pc' = "fallback"
                   /\ UNCHANGED <<tour, loading, loadingMessage, error,
                                  skippedVenues, i, geocodedVenues, skipped,
                                  url, localError, inFlight>>

\* lines 110-129: the fallback geocode call of venue i settles
FallbackReturn ==
  /\ pc = "fallback"
  /\ geocodeResult' = NoGeocodeResult
  /\ UNCHANGED <<extractedData, backendReply, fetchReply>>
  /\ UNCHANGED pureVars
  /\ \E reply \in ProviderReplies :
       LET settled == GeocodeSettled("nominatim", FALSE, reply)
           fallbackResult == settled.value
           venue == extractedData.venues[i + 1]
           tr == Append(trace, Event("ret", i, "fallback", fallbackResult.success))
       IN  IF settled.threw THEN GeocodeRejected(settled.message)
           ELSE IF FallbackAccepted(fallbackResult)
           THEN AfterVenue(Append(geocodedVenues,
                                  WithCoordinates(venue, fallbackResult)),
                           skipped, tr)
           ELSE AfterVenue(geocodedVenues, Append(skipped, venue.name), tr)

\* line 127 settles: i++ and the next iteration
DelayReturn ==
  /\ pc = "delay"
  /\ geocodeResult' = NoGeocodeResult
  /\ UNCHANGED <<extractedData, backendReply, fetchReply>>
  /\ UNCHANGED pureVars
  /\ LoopFrom(extractedData.venues, i + 1, geocodedVenues, skipped, trace)

\* mutant: the validation message takes precedence over the error prop
DisplayErrorLocalFirst ==
  IF localError # "" THEN localError ELSE error

\* TourInput.tsx:100: displayError = error || localError, the message the
\* alert shows (the error prop is App's error state)
DisplayError ==
  IF error # Null /\ error # "" THEN error ELSE localError

\* the header that holds the "New Tour" button is rendered with a tour only
\* (line 243: {tour && ...})
ResetRendered == ~tour.isNull

\* the "New Tour" button, rendered only with a tour (lines 298-309); the
\* finished run's locals no longer exist, TourInput is mounted anew
Reset ==
  /\ ResetRendered
  /\ tour' = NullTour
  /\ error' = Null
  /\ skippedVenues' = <<>>
  /\ extractedData' = NullBody
  /\ i' = 0
  /\ geocodedVenues' = <<>>
  /\ skipped' = <<>>
  /\ backendReply' = NoReply
  /\ fetchReply' = NoFetchReply
  /\ geocodeResult' = NoGeocodeResult
  /\ trace' = <<>>
  /\ url' = EmptyText
  /\ localError' = ""
  /\ UNCHANGED <<loading, loadingMessage, pc, inFlight>>
  /\ UNCHANGED pureVars

\* the notice's dismiss button (line 268)
DismissSkipped ==
  /\ ~tour.isNull
  /\ skippedVenues # <<>>
  /\ skippedVenues' = <<>>
  /\ UNCHANGED <<tour, loading, loadingMessage, error, pc, extractedData, i,
                 geocodedVenues, skipped, backendReply, trace,
                 url, localError, inFlight, fetchReply, geocodeResult>>
  /\ UNCHANGED pureVars

Next ==
  \/ ClickExtract
  \/ KeyPressEnter
  \/ HandleInputChange
  \/ FetchReturn
  \/ ExtractReturn
  \/ PrimaryReturn
  \/ FallbackReturn
  \/ DelayReturn
  \/ Reset
  \/ DismissSkipped

Spec == Init /\ [][Next]_vars

\* The awaits of handleExtractTour (lines 33, 56, 94, 110, 127): when every
\* external call and every timer eventually settles, the continuation of
\* each await is eventually run.  The user's actions carry no fairness.
Fairness ==
  /\ WF_vars(FetchReturn)
  /\ WF_vars(ExtractReturn)
  /\ WF_vars(PrimaryReturn)
  /\ WF_vars(FallbackReturn)
  /\ WF_vars(DelayReturn)

FairSpec == Init /\ [][Next]_vars /\ Fairness

\* --------------------------------------------------- total distance
\* Distances are held in tenths: the number t stands for t / 10 km (or mi).
\* kmToMiles: Math.round(km * 0.621371 * 10) / 10, Math.round rounding
\* halves up
\* (the product is taken in two parts to stay within 32-bit integers)
KmToMiles(t) ==
  LET thousands == t \div 1000
      rest == t % 1000
  IN  (thousands * 621371 + (rest * 621371 + 500000) \div 1000) \div 1000

\* the distances of a route as calculateRoutes sets them (lines 61-66)
DistanceRoutes ==
  {[distanceKm |-> t, distanceMiles |-> KmToMiles(t)] : t \in 0..MaxTenths}

RECURSIVE RouteLists(_)
RouteLists(n) ==
  IF n = 0 THEN {<<>>}
  ELSE {Append(rs, r) : rs \in RouteLists(n - 1), r \in DistanceRoutes}

\* routes.reduce((sum, route) => sum + route.distanceKm, 0)
RECURSIVE SumDistanceKm(_)
SumDistanceKm(routes) ==
  IF routes = <<>> THEN 0
  ELSE SumDistanceKm(SubSeq(routes, 1, Len(routes) - 1))
         + routes[Len(routes)].distanceKm

\* tour.routes.reduce((sum, route) => sum + route.distanceMiles, 0)
RECURSIVE SumDistanceMiles(_)
SumDistanceMiles(routes) ==
  IF routes = <<>> THEN 0
  ELSE SumDistanceMiles(SubSeq(routes, 1, Len(routes) - 1))
         + routes[Len(routes)].distanceMiles

\* DistanceService.calculateTotalDistance; Math.round(x * 10) / 10 of a
\* whole number of tenths is that number
CalculateTotalDistance(routes) ==
  LET totalKm == SumDistanceKm(routes)
  IN  [km |-> totalKm, miles |-> KmToMiles(totalKm)]

\* calculateTotalDistance of the TourDetails component
DetailsTotalDistance(routes) ==
  [km |-> SumDistanceKm(routes), miles |-> SumDistanceMiles(routes)]

DistanceInit ==
  /\ InitApp
  /\ input \in {<<rs>> : rs \in UNION {RouteLists(n) : n \in 0..MaxRoutes}}
  /\ output = <<>>

\* api/calculate-route.ts:124 calls the service
ServiceTotal ==
  /\ output = <<>>
  /\ output' = <<"DistanceService", CalculateTotalDistance(input[1])>>
  /\ UNCHANGED <<input, runVars>>

\* TourDetails renders its own total
DetailsTotal ==
  /\ output = <<>>
  /\ output' = <<"TourDetails", DetailsTotalDistance(input[1])>>
  /\ UNCHANGED <<input, runVars>>

DistanceNext == ServiceTotal \/ DetailsTotal

DistanceSpec == DistanceInit /\ [][DistanceNext]_vars

\* ------------------------------------------------------------ haversine
\* calculateDistance is evaluated exactly on the coordinates that are whole
\* quarter turns: latitude -90, 0, 90 and longitude -180 .. 180 degrees,
\* written as the numbers of quarter turns.
GridLatitudes == {-1, 0, 1}
GridLongitudes == {-2, -1, 0, 1, 2}

\* The sines and cosines met on this grid are 0, 1, -1 and +-sqrt(2)/2.  A
\* real x is held as its sign and 16 * x^2, which is exact for these
\* values and their products.
Exact(sign, sq) == [sign |-> IF sq = 0 THEN 0 ELSE sign, sq |-> sq]

\* the product x * y
Times(x, y) == Exact(x.sign * y.sign, (x.sq * y.sq) \div 16)

\* a rational x among 0, 1/4, 1/2, 1 as a number of quarters
Quarters(x) ==
  x.sign * (CASE x.sq = 0 -> 0
              [] x.sq = 1 -> 1
              [] x.sq = 4 -> 2
              [] OTHER -> 4)

\* Math.sin of an angle of k eighth turns (k * 45 degrees), -4 <= k <= 4
SinEighths(k) ==
  LET m == IF k < 0 THEN -k ELSE k
  IN  Exact(IF k < 0 THEN -1 ELSE 1,
            CASE m \in {0, 4} -> 0
              [] m \in {1, 3} -> 8
              [] OTHER -> 16)

\* Math.cos of a latitude of k quarter turns, -1 <= k <= 1
CosQuarters(k) == IF k = 0 THEN Exact(1, 16) ELSE Exact(1, 0)

\* lines 24-27 with R = 6371: Math.round(R * 2 * atan2(sqrt(a), sqrt(1 - a))
\* * 10) in tenths of a km, for a given in quarters; a outside 0..1 makes
\* a square root, and with it the distance, NaN
DistanceOfHaversine(a) ==
  CASE a = 0 -> 0
    [] a = 1 -> 66717
    [] a = 2 -> 100075
    [] a = 3 -> 133434
    [] a = 4 -> 200151
    [] OTHER -> NaN

\* mutant: the cosine of the first latitude is taken twice
CalculateDistanceOneLatitude(lat1, lon1, lat2, lon2) ==
  LET dLat == lat2 - lat1
      dLon == lon2 - lon1
      a == Quarters(Times(SinEighths(dLat), SinEighths(dLat)))
           + Quarters(Times(Times(Times(CosQuarters(lat1), CosQuarters(lat1)),
                                  SinEighths(dLon)),
                            SinEighths(dLon)))
  IN  DistanceOfHaversine(a)

\* calculateDistance (lines 12-28); half of a difference of n quarter turns
\* is an angle of n eighth turns
CalculateDistance(lat1, lon1, lat2, lon2) ==
  LET dLat == lat2 - lat1
      dLon == lon2 - lon1
      a == Quarters(Times(SinEighths(dLat), SinEighths(dLat)))
           + Quarters(Times(Times(Times(CosQuarters(lat1), CosQuarters(lat2)),
                                  SinEighths(dLon)),
                            SinEighths(dLon)))
  IN  DistanceOfHaversine(a)

\* lines 54-66: the distances of the route from one venue to another
RouteDistances(from, to) ==
  LET distanceKm == CalculateDistance(from[1], from[2], to[1], to[2])
  IN  [distanceKm |-> distanceKm,
       distanceMiles |-> IF distanceKm = NaN THEN NaN ELSE KmToMiles(distanceKm)]

\* two venues, each a pair <<latitude, longitude>>
HaversineInit ==
  /\ InitApp
  /\ input \in {<<from, to>> : from \in GridLatitudes \X GridLongitudes,
                                to \in GridLatitudes \X GridLongitudes}
  /\ output = <<>>

\* calculateRoutes on the two venues in the given order
RouteThere ==
  /\ output = <<>>
  /\ output' = <<RouteDistances(input[1], input[2])>>
  /\ UNCHANGED <<input, runVars>>

\* calculateRoutes on the two venues in the reverse order
RouteBack ==
  /\ Len(output) = 1
  /\ output' = Append(output, RouteDistances(input[2], input[1]))
  /\ UNCHANGED <<input, runVars>>

HaversineNext == RouteThere \/ RouteBack

HaversineSpec == HaversineInit /\ [][HaversineNext]_vars

\* ------------------------------------------------------------- backend
ErrUpstreamUnreachable == "request to upstream failed, reason: connect ECONNREFUSED"
ErrOpenAi == "OpenAI API error: Too Many Requests - {}"
ErrAnthropic == "Anthropic API error: Too Many Requests - {}"
ErrParseTour == "Failed to parse tour data from AI response"

\* res.status(status).json({success: false, error})
ErrorResponse(status, message) ==
  [status |-> status, success |-> FALSE, error |-> message, data |-> <<>>]

\* res.json({success: true, ...}): Express sends status 200
OkResponse(data) ==
  [status |-> 200, success |-> TRUE, error |-> Null, data |-> data]

\* requests of POST /api/fetch-url with what the fetch of the page meets
FetchUrlRequests ==
  [endpoint : {"fetch-url"},
   url : {Null, NotAUrl, FtpUrl, HttpsUrl},
   upstream : {"network", "not_found", "html", "json", "no_content_type"}]

\* POST /api/fetch-url (lines 46-119)
PostFetchUrlResponse(req) ==
  CASE req.url = Null -> ErrorResponse(400, "URL is required")
    [] req.url # Null /\ UrlProtocol(req.url) = Null ->
         ErrorResponse(400, "Invalid URL format")
    [] req.url # Null /\ UrlProtocol(req.url) # Null
       /\ UrlProtocol(req.url) \notin {"http:", "https:"} ->
         ErrorResponse(400, "Only HTTP and HTTPS protocols are allowed")
    [] OTHER ->
         CASE req.upstream = "network" -> ErrorResponse(500, ErrUpstreamUnreachable)
           [] req.upstream = "not_found" -> ErrorResponse(404, ErrFetchUrlFailed)
           [] req.upstream \in {"json", "no_content_type"} ->
                ErrorResponse(400, "URL must return HTML content")
           [] OTHER -> OkResponse(<<"content">>)

\* requests of POST /api/geocode with the reply of the provider
\* (a reply with a status other than OK is a reply of Google)
GeocodeRequests ==
  {req \in [endpoint : {"geocode"},
            address : BOOLEAN,
            provider : {Null, "nominatim", "opencage", "google", "mapbox"},
            hasKey : BOOLEAN,
            upstream : AllProviderReplies] :
     req.upstream.kind = "status" => req.provider = "google"}

\* geocodeWithNominatim, geocodeWithOpenCage and geocodeWithGoogle of the
\* backend (lines 379-466) on the reply of the provider
ServerGeocodeWith(provider, reply) ==
  CASE reply.kind = "network" ->
         [threw |-> TRUE, message |-> ErrUpstreamUnreachable,
          value |-> GeocodeFailure(Null)]
    [] reply.kind = "http_error" ->
         [threw |-> TRUE,
          message |-> CASE provider = "nominatim" -> ErrNominatim
                        [] provider = "opencage" -> ErrOpenCage
                        [] OTHER -> ErrGoogle,
          value |-> GeocodeFailure(Null)]
    [] reply.kind = "empty" ->
         [threw |-> FALSE, message |-> Null, value |-> GeocodeFailure(ErrNoResults)]
    [] reply.kind = "status" ->
         [threw |-> FALSE, message |-> Null,
          value |-> GeocodeFailure(StatusOverLimit)]
    [] OTHER ->
         [threw |-> FALSE, message |-> Null,
          value |-> [success |-> TRUE, latitude |-> reply.lat,
                     longitude |-> reply.lon, error |-> Null]]

\* POST /api/geocode (lines 212-268): the result of the provider function
\* is sent with res.json, whatever its success flag
PostGeocodeResponse(req) ==
  LET useProvider == IF req.provider # Null THEN req.provider ELSE "nominatim"
      result == ServerGeocodeWith(useProvider, req.upstream)
  IN  CASE ~req.address -> ErrorResponse(400, "Address is required")
        [] req.address /\ useProvider = "opencage" /\ ~req.hasKey ->
             ErrorResponse(400, "OpenCage API key not configured")
        [] req.address /\ useProvider = "google" /\ ~req.hasKey ->
             ErrorResponse(400, "Google Maps API key not configured")
        [] req.address /\ useProvider = "mapbox" ->
             ErrorResponse(400, "Invalid geocoding provider")
        [] OTHER ->
             IF result.threw THEN ErrorResponse(500, result.message)
             ELSE [status |-> 200, success |-> result.value.success,
                   error |-> result.value.error,
                   data |-> <<result.value.latitude, result.value.longitude>>]

\* a date string of the model's reply: a day number, or NaN for a missing
\* or unparsable one (new Date(x).getTime() is then NaN)
RawDates == Dates \cup {NaN}

\* a venue as the model's JSON carries it
RawVenue(k) ==
  {[name |-> VenueName(k), city |-> "London", startDate |-> a, endDate |-> b] :
     a \in RawDates, b \in RawDates}

RECURSIVE RawVenueLists(_)
RawVenueLists(n) ==
  IF n = 0 THEN {<<>>}
  ELSE {Append(vs, v) : vs \in RawVenueLists(n - 1), v \in RawVenue(n - 1)}

\* what JSON.parse gives for the model's text: null, an object without
\* venues, or an object with a venues array
JsonNull == [isObject |-> FALSE, hasVenues |-> FALSE, venues |-> <<>>]

ModelJson ==
  {JsonNull, [isObject |-> TRUE, hasVenues |-> FALSE, venues |-> <<>>]}
  \cup {[isObject |-> TRUE, hasVenues |-> TRUE, venues |-> vs] :
          vs \in UNION {RawVenueLists(n) : n \in 0..MaxVenues}}

\* the text of the model's reply: fence is the Markdown code fence around
\* it, parses tells whether the text inside is JSON
ModelTexts ==
  [fence : {"none", "json", "plain"}, parses : {TRUE}, json : ModelJson]
  \cup [fence : {"none", "json"}, parses : {FALSE}, json : {JsonNull}]

PlainText == [fence |-> "none", parses |-> FALSE, json |-> JsonNull]

\* what callOpenAI / callAnthropic meet
ModelReplies ==
  [kind : {"network", "http_error"}, text : {PlainText}]
  \cup [kind : {"text"}, text : ModelTexts]

\* requests of POST /api/extract-tour: the client sends htmlContent and
\* url, never a provider (ai.ts:32-35); rejection is the message the
\* browser's fetch rejects with when the backend is not reached
ExtractRequests ==
  [endpoint : {"extract-tour"}, rejection : {Null}, htmlContent : {TRUE},
   openaiKey : {TRUE}, anthropicKey : {FALSE}, provider : {Null},
   upstream : ModelReplies]
  \cup [endpoint : {"extract-tour"}, rejection : {Null}, htmlContent : BOOLEAN,
        openaiKey : BOOLEAN, anthropicKey : BOOLEAN,
        provider : {Null, "anthropic"},
        upstream : [kind : {"network", "http_error", "text"}, text : {PlainText}]]
  \cup [endpoint : {"extract-tour"}, rejection : FetchRejections,
        htmlContent : {TRUE}, openaiKey : {TRUE}, anthropicKey : {FALSE},
        provider : {Null},
        upstream : [kind : {"network"}, text : {PlainText}]]

\* callOpenAI / callAnthropic (lines 274-333)
CallModel(useProvider, reply) ==
  CASE reply.kind = "network" ->
         [threw |-> TRUE, message |-> ErrUpstreamUnreachable, value |-> PlainText]
    [] reply.kind = "http_error" ->
         [threw |-> TRUE,
          message |-> IF useProvider = "openai" THEN ErrOpenAi ELSE ErrAnthropic,
          value |-> PlainText]
    [] OTHER -> [threw |-> FALSE, message |-> Null, value |-> reply.text]

\* lines 338-347: the Markdown code fence is removed
StripFence(text) == [text EXCEPT !.fence = "none"]

\* mutant: the subtraction is the wrong way round
VenueDurationSwapped(venue) ==
  IF venue.startDate = NaN \/ venue.endDate = NaN THEN NaN
  ELSE Ceil(GetTime(venue.startDate) - GetTime(venue.endDate), MsPerDay)

\* lines 354-356: durationDays of a venue
VenueDuration(venue) ==
  IF venue.startDate = NaN \/ venue.endDate = NaN THEN NaN
  ELSE Ceil(GetTime(venue.endDate) - GetTime(venue.startDate), MsPerDay)

\* lines 353-365: the venue with its id, duration and placeholder coordinates
ProcessVenue(venue, index) ==
  [name |-> venue.name, city |-> venue.city, startDate |-> venue.startDate,
   endDate |-> venue.endDate, id |-> index,
   durationDays |-> VenueDuration(venue), latitude |-> 0, longitude |-> 0]

\* parseTourResponse (lines 335-373): every throw inside, of JSON.parse or
\* of the property access on null, becomes the one generic Error
ParseTourResponse(response) ==
  LET cleaned == StripFence(response)
      parsed == cleaned.json
  IN  IF cleaned.fence # "none" \/ ~cleaned.parses \/ ~parsed.isObject
      THEN [threw |-> TRUE, message |-> ErrParseTour, value |-> JsonNull]
      ELSE [threw |-> FALSE, message |-> Null,
            value |-> [parsed EXCEPT !.venues =
                         [k \in 1..Len(parsed.venues) |->
                            ProcessVenue(parsed.venues[k], k - 1)]]]

\* POST /api/extract-tour (lines 124-207)
PostExtractTourResponse(req) ==
  LET useProvider == IF req.provider # Null THEN req.provider
                     ELSE IF req.openaiKey THEN "openai" ELSE "anthropic"
      extracted == CallModel(useProvider, req.upstream)
      tourData == ParseTourResponse(extracted.value)
  IN  CASE ~req.htmlContent -> ErrorResponse(400, "HTML content is required")
        [] req.htmlContent /\ ~req.openaiKey /\ ~req.anthropicKey ->
             ErrorResponse(500, "No AI API key configured. Please add OPENAI_API_KEY or ANTHROPIC_API_KEY to backend .env file")
        [] req.htmlContent /\ (req.openaiKey \/ req.anthropicKey)
           /\ ~(\/ useProvider = "openai" /\ req.openaiKey
                \/ useProvider = "anthropic" /\ req.anthropicKey) ->
             ErrorResponse(400, "Provider not available or API key not configured")
        [] OTHER ->
             IF extracted.threw THEN ErrorResponse(500, extracted.message)
             ELSE IF tourData.threw THEN ErrorResponse(500, tourData.message)
             ELSE OkResponse(tourData.value)

\* the response as the fetch of the Extraction Client reports it
ClientReply(response) ==
  IF response.status \in 200..299
  THEN [kind |-> "ok", rejection |-> Null, errorBody |-> Null,
        body |-> EnvelopeBody(response.data.hasVenues, response.data.venues)]
  ELSE [kind |-> "http_error", rejection |-> Null,
        errorBody |-> response.error, body |-> NullBody]

NoResponse == [status |-> 0, success |-> FALSE, error |-> Null, data |-> <<>>]

BackendInit ==
  /\ InitApp
  /\ input \in {<<req>> : req \in FetchUrlRequests}
              \cup {<<req>> : req \in GeocodeRequests}
              \cup {<<req>> : req \in ExtractRequests}
  /\ output = <<>>

PostFetchUrl ==
  /\ input[1].endpoint = "fetch-url"
  /\ output = <<>>
  /\ output' = <<PostFetchUrlResponse(input[1])>>
  /\ UNCHANGED <<input, runVars>>

PostGeocode ==
  /\ input[1].endpoint = "geocode"
  /\ output = <<>>
  /\ output' = <<PostGeocodeResponse(input[1])>>
  /\ UNCHANGED <<input, runVars>>

PostExtractTour ==
  /\ input[1].endpoint = "extract-tour"
  /\ input[1].rejection = Null
  /\ output = <<>>
  /\ output' = <<PostExtractTourResponse(input[1])>>
  /\ UNCHANGED <<input, runVars>>

\* extractTourData of the client settles: on the response of the backend,
\* or on the rejection of its fetch
ExtractTourDataSettles ==
  /\ input[1].endpoint = "extract-tour"
  /\ IF input[1].rejection # Null
     THEN /\ output = <<>>
          /\ output' = <<NoResponse,
                         ExtractTourData([kind |-> "network",
                                          rejection |-> input[1].rejection,
                                          errorBody |-> Null,
                                          body |-> NullBody])>>
     ELSE /\ Len(output) = 1
          /\ output' = Append(output, ExtractTourData(ClientReply(output[1])))
  /\ UNCHANGED <<input, runVars>>

BackendNext ==
  \/ PostFetchUrl
  \/ PostGeocode
  \/ PostExtractTour
  \/ ExtractTourDataSettles

BackendSpec == BackendInit /\ [][BackendNext]_vars

\* ------------------------------------------------------- unit conversion
\* a distance as calculateDistance returns it: a whole number of tenths
ConversionInit ==
  /\ InitApp
  /\ input \in {<<t>> : t \in 0..MaxKmTenths}
  /\ output = <<>>

\* distance.ts:65: this.kmToMiles(distanceKm)
ConvertKmToMiles ==
  /\ output = <<>>
  /\ output' = <<KmToMiles(input[1])>>
  /\ UNCHANGED <<input, runVars>>

ConversionNext == ConvertKmToMiles

ConversionSpec == ConversionInit /\ [][ConversionNext]_vars

\* ------------------------------------------------- the dates of a Tour
\* geocoded venues whose run may end after it starts
DatedVenue(k) ==
  {[id |-> k, name |-> VenueName(k), city |-> "London", startDate |-> d,
    endDate |-> d + s, latitude |-> 1, longitude |-> 1] :
     d \in Dates, s \in 0..MaxSpan}

RECURSIVE DatedVenueLists(_)
DatedVenueLists(n) ==
  IF n = 0 THEN {<<>>}
  ELSE {Append(vs, v) : vs \in DatedVenueLists(n - 1), v \in DatedVenue(n - 1)}

\* a non-empty geocodedVenues, as the code after the loop finds it
TourDatesInit ==
  /\ InitApp
  /\ input \in {<<vs>> : vs \in UNION {DatedVenueLists(n) : n \in 1..MaxVenues}}
  /\ output = <<>>

\* line 139
SortVenues ==
  /\ Len(output) = 0
  /\ output' = <<SortByStartDate(input[1])>>
  /\ UNCHANGED <<input, runVars>>

\* lines 147-165
AssembleTour ==
  /\ Len(output) = 1
  /\ output' = Append(output, TourDates(output[1]))
  /\ UNCHANGED <<input, runVars>>

TourDatesNext == SortVenues \/ AssembleTour

TourDatesSpec == TourDatesInit /\ [][TourDatesNext]_vars

\* ------------------------------------------------------- trace vocabulary
Range(seq) == {seq[k] : k \in 1..Len(seq)}

Positions(op) == {p \in 1..Len(trace) : trace[p].op = op}

CallsOf(k) == {p \in Positions("call") : trace[p].n = k}

\* the venues of the run in progress or of the last run (0-based indices)
RunVenues == extractedData.venues

VenueIndices == 0..(Len(RunVenues) - 1)

Invalid(k) == RunVenues[k + 1].name = NoName \/ RunVenues[k + 1].city = NoCity

\* what line 79 pushes for venue k
SkipEntry(k) ==
  IF RunVenues[k + 1].name # NoName THEN RunVenues[k + 1].name
  ELSE <<"Venue", k + 1>>

Sorted(venues) ==
  \A a, b \in 1..Len(venues) : a < b => venues[a].startDate <= venues[b].startDate

\* ------------------------------------------------------------------ claims

\* C1: whenever a Tour is published, Tour.venues holds the geocoded venues
\* sorted ascending by startDate, and Tour.routes is the list of consecutive
\* pairs of that list: len(venues) - 1 routes, routes[k] from venues[k] to
\* venues[k + 1].
C1_SortedAndRoutesConsecutive ==
  ~tour.isNull =>
    /\ Sorted(tour.venues)
    /\ Len(tour.venues) = Len(geocodedVenues)
    /\ Range(tour.venues) = Range(geocodedVenues)
    /\ Len(tour.routes) = Len(tour.venues) - 1
    /\ \A k \in 1..Len(tour.routes) :
         /\ tour.routes[k].from = tour.venues[k]
         /\ tour.routes[k].to = tour.venues[k + 1]

\* a Tour of several venues that extraction returned out of date order
C1_Witness ==
  /\ ~tour.isNull
  /\ Len(tour.venues) >= 2
  /\ ~Sorted(geocodedVenues)
  /\ tour.venues # geocodedVenues
  /\ Len(tour.routes) >= 1

\* C2: on the step that publishes the Tour, every extracted venue is
\* accounted for exactly once, in Tour.venues or in the skipped list, and a
\* venue whose primary and fallback calls both returned a failure is in the
\* skipped list and not in the Tour.
InTour(t, k) == \E j \in 1..Len(t.venues) : t.venues[j].id = k

BothFailed(tr, k) ==
  /\ Event("ret", k, "primary", FALSE) \in Range(tr)
  /\ Event("ret", k, "fallback", FALSE) \in Range(tr)

C2_AccountedAt(t, sk, data, tr) ==
  /\ Len(t.venues) + Len(sk) = Len(data.venues)
  /\ \A k \in 0..(Len(data.venues) - 1) :
       LET entry == IF data.venues[k + 1].name # NoName
                    THEN data.venues[k + 1].name ELSE <<"Venue", k + 1>>
       IN  /\ Cardinality({j \in 1..Len(t.venues) : t.venues[j].id = k})
              + Cardinality({j \in 1..Len(sk) : sk[j] = entry}) = 1
           /\ BothFailed(tr, k) => entry \in Range(sk) /\ ~InTour(t, k)

C2_EveryVenueAccounted ==
  [][(tour.isNull /\ ~tour'.isNull)
       => C2_AccountedAt(tour', skippedVenues', extractedData', trace')]_vars

\* the second venue failed both calls: the Tour holds the other venues and
\* the skipped list holds its name
C2_Witness ==
  /\ ~tour.isNull
  /\ Len(RunVenues) >= 2
  /\ BothFailed(trace, 1)
  /\ Len(tour.venues) = Len(RunVenues) - 1
  /\ Len(tour.routes) = Len(RunVenues) - 2
  /\ skippedVenues = <<VenueName(1)>>

\* C3: the fallback call of a venue is issued only after its primary call
\* returned a failure (success: false), at most once, and a venue has at
\* most two geocode calls.
C3_FallbackOnlyAfterFailure ==
  \A k \in VenueIndices :
    /\ Cardinality(CallsOf(k)) <= 2
    /\ Cardinality({p \in CallsOf(k) : trace[p].kind = "fallback"}) <= 1
    /\ \A p \in CallsOf(k) :
         trace[p].kind = "fallback" =>
           \E q \in 1..(p - 1) : trace[q] = Event("ret", k, "primary", FALSE)

\* C4: geocode calls are strictly sequential: when a call is issued every
\* earlier call has returned, so at most one call is outstanding and the
\* calls of venue i are over before a call of a later venue is issued.
Outstanding == Cardinality(Positions("call")) - Cardinality(Positions("ret"))

C4_GeocodeSequential ==
  /\ Outstanding \in {0, 1}
  /\ Outstanding = 1 <=> pc \in {"primary", "fallback"}
  /\ \A q \in Positions("call") :
       /\ Cardinality({p \in Positions("call") : p < q})
            = Cardinality({p \in Positions("ret") : p < q})
       /\ \A p \in Positions("call") :
            p < q => /\ trace[p].n <= trace[q].n
                     /\ \E r \in Positions("ret") :
                          p < r /\ r < q /\ trace[r].n = trace[p].n
                          /\ trace[r].kind = trace[p].kind

\* a run that has issued calls for two venues, a fallback among them
C4_Witness ==
  /\ \E p, q \in Positions("call") : trace[p].n < trace[q].n
  /\ \E p \in Positions("call") : trace[p].kind = "fallback"

\* C5: between any two consecutive geocode calls of a run there is a delay
\* of 1000 ms.
C5_DelayBetweenCalls ==
  \A p, q \in Positions("call") :
    (p < q /\ ~\E r \in Positions("call") : p < r /\ r < q)
      => \E d \in Positions("delay") : p < d /\ d < q /\ trace[d].n = 1000

\* C6: once the run is over, no delay follows the last geocode call.
C6_NoDelayAfterFinalCall ==
  (pc = "idle" /\ Positions("ret") # {})
    => \A d \in Positions("delay") : \E r \in Positions("ret") : d < r

\* C7: an extraction result without a venues array, or with an empty one,
\* ends the run in Failed with the "No venues found" message and without a
\* geocode call.
C7_NoVenuesFails ==
  (backendReply.kind = "ok" /\ extractedData.isObject
     /\ (~extractedData.venuesIsArray \/ Len(extractedData.venues) = 0))
    => /\ pc = "idle"
       /\ ~loading
       /\ error = ErrNoVenues
       /\ tour.isNull
       /\ Positions("call") = {}
       /\ trace = <<>>

\* a failed run whose extraction result carried an empty venues array
C7_Witness ==
  /\ backendReply.kind = "ok"
  /\ extractedData.isObject
  /\ extractedData.venuesIsArray
  /\ extractedData.venues = <<>>
  /\ error = ErrNoVenues

\* C8: when the run has left the geocoding stage every extracted venue was
\* attempted or skipped; with no venue geocoded the run is Failed with the
\* "Failed to geocode any venues" message; calculateRoutes never gets an
\* empty list.
Attempted(k) ==
  \/ \E p \in Positions("skip") : trace[p].n = k
  \/ /\ \E p \in Positions("ret") : trace[p].n = k
     /\ \A c \in CallsOf(k) :
          \E r \in Positions("ret") :
            c < r /\ trace[r].n = k /\ trace[r].kind = trace[c].kind

C8_LeavesGeocodingWhenAllAttempted ==
  /\ \A p \in Positions("routes") : trace[p].n > 0
  /\ (pc = "idle" /\ HasVenues(extractedData))
       => /\ \A k \in VenueIndices : Attempted(k)
          /\ i = Len(RunVenues)
          /\ IF geocodedVenues = <<>>
             THEN /\ error = ErrNoGeocode
                  /\ tour.isNull
                  /\ Positions("routes") = {}
             ELSE /\ error = Null
                  /\ ~tour.isNull
                  /\ Len(tour.venues) = Len(geocodedVenues)

\* a run of several venues that failed because none was geocoded, after
\* calls were made
C8_Witness ==
  /\ pc = "idle"
  /\ Len(RunVenues) >= 2
  /\ geocodedVenues = <<>>
  /\ error = ErrNoGeocode
  /\ Positions("ret") # {}

\* C9: a venue without a name or without a city that the loop has passed
\* had no geocode call and is in the skipped list under its name, or under
\* "Venue <position>" (1-based) when it has no name.
C9_InvalidVenueSkipped ==
  \A k \in VenueIndices :
    (k < i /\ Invalid(k))
      => /\ CallsOf(k) = {}
         /\ SkipEntry(k) \in Range(skipped)
         /\ (~tour.isNull /\ skippedVenues # <<>>)
              => SkipEntry(k) \in Range(skippedVenues)

\* a published Tour whose run skipped a nameless second venue
C9_Witness ==
  /\ ~tour.isNull
  /\ Len(RunVenues) >= 2
  /\ RunVenues[2].name = NoName
  /\ <<"Venue", 2>> \in Range(skippedVenues)

\* C10: for a 2xx reply {success, provider, data: {name, venues}} with a
\* non-empty data.venues, the Extraction Client returns data's name and
\* venues, and the run goes on to Geocoding instead of failing.
C10_ExtractionUnwrapsData ==
  (backendReply.kind = "ok" /\ backendReply.body.hasData
     /\ HasVenues(backendReply.body.data))
    => /\ extractedData.name = backendReply.body.data.name
       /\ extractedData.venues = backendReply.body.data.venues
       /\ error \notin {ErrNoVenues, ErrInvalidData}

RECURSIVE MinOf(_)
MinOf(S) ==
  LET x == CHOOSE y \in S : TRUE
  IN  IF S = {x} THEN x
      ELSE LET m == MinOf(S \ {x}) IN IF x < m THEN x ELSE m

RECURSIVE MaxOf(_)
MaxOf(S) ==
  LET x == CHOOSE y \in S : TRUE
  IN  IF S = {x} THEN x
      ELSE LET m == MaxOf(S \ {x}) IN IF x > m THEN x ELSE m

\* C11: the assembled tour starts on the earliest start date of its venues,
\* ends on the latest end date of its venues, and lasts the whole days
\* between the two, rounded up, also when a venue that starts earlier ends
\* later than the venue that starts last
C11_TourDateRange ==
  Len(output) = 2 =>
    LET venues == input[1]
        earliest == MinOf({venues[k].startDate : k \in 1..Len(venues)})
        latest == MaxOf({venues[k].endDate : k \in 1..Len(venues)})
    IN  /\ output[2].startDate = earliest
        /\ output[2].endDate = latest
        /\ output[2].totalDurationDays
             = Ceil(GetTime(latest) - GetTime(earliest), MsPerDay)

\* C12: a run is started only by a text that, trimmed, is an absolute URL
\* of scheme http or https; a URL of another scheme (ftp:, mailto:, ...)
\* never invokes the orchestrator.
C12_RunOnlyForHttpUrl ==
  pc # "idle" => UrlProtocol(Trim(url)) \in {"http:", "https:"}

\* the submission control is usable and the text is empty or no URL
InvalidSubmittable ==
  /\ tour.isNull
  /\ ~loading
  /\ UrlProtocol(Trim(url)) = Null

\* C13: submitting an empty or unparsable text makes no network call and
\* leaves tour, loading, error and the skipped list (and the whole run
\* state) unchanged; only the local validation message changes.
C13_InvalidUrlOnlyLocalError ==
  [][(InvalidSubmittable /\ url' = url)
       => /\ UNCHANGED <<appVars, pc, trace, fetchReply, backendReply,
                         inFlight, extractedData>>
          /\ localError' = IF Trim(url) = "" THEN ErrEnterUrl
                           ELSE ErrEnterValidUrl]_vars

\* an unparsable text was submitted: the message is shown, nothing ran
C13_Witness ==
  /\ Trim(url) = NotAUrl
  /\ localError = ErrEnterValidUrl
  /\ pc = "idle"
  /\ fetchReply = NoFetchReply
  /\ error = Null

\* C14: at most one invocation of handleExtractTour is unsettled at any
\* time, and one is unsettled exactly while loading is true.
C14_AtMostOneRun ==
  /\ inFlight <= 1
  /\ loading <=> inFlight = 1
  /\ loading <=> pc # "idle"

\* a run is in its geocoding loop while the text is still a valid URL
\* that the button or Enter would submit if they were not disabled
C14_Witness ==
  /\ pc = "primary"
  /\ loading
  /\ inFlight = 1
  /\ UrlProtocol(Trim(url)) = "https:"

\* C15: extraction (and all that follows it) happens only after a 2xx
\* reply of the page-fetch proxy; after a non-2xx reply the run is over
\* with the error of the reply's body, or a fallback message, and neither
\* extraction nor geocoding was called.
C15_ExtractionOnlyAfterProxySuccess ==
  /\ (pc \in {"extract", "primary", "fallback", "delay"}
        \/ backendReply # NoReply \/ trace # <<>>)
       => fetchReply.kind = "ok"
  /\ fetchReply.kind = "http_error"
       => /\ pc = "idle"
          /\ ~loading
          /\ tour.isNull
          /\ error # Null
          /\ (fetchReply.bodyIsJson /\ fetchReply.errorBody # Null)
               => error = fetchReply.errorBody
          /\ ~(fetchReply.bodyIsJson /\ fetchReply.errorBody # Null)
               => error \in {ErrFetchGeneric, fetchReply.statusText}
          /\ backendReply = NoReply
          /\ trace = <<>>

\* the proxy answered non-2xx with an error in its body
C15_Witness ==
  /\ fetchReply.kind = "http_error"
  /\ fetchReply.errorBody = ErrProxyBody
  /\ error = ErrProxyBody

\* a run has failed and no other run was started since
Failed == pc = "idle" /\ error # Null

\* C16: after a failed run, whatever its stage, loading is false, the
\* error is set, the skipped list is empty, the submission control is
\* usable, and the run that is started next clears the error.
C16_FailedRunLeavesRetryableState ==
  [][/\ Failed' => /\ ~loading'
                   /\ skippedVenues' = <<>>
                   /\ tour'.isNull
                   /\ inFlight' = 0
     /\ (Failed /\ pc' # "idle") => (error' = Null /\ loading')]_vars

\* a run failed in the geocoding stage after it had collected skipped
\* venues; none of them is surfaced
C16_Witness ==
  /\ Failed
  /\ error = ErrNoGeocode
  /\ skipped # <<>>
  /\ skippedVenues = <<>>
  /\ ~loading

\* C17: tour is written by a run only in the step that ends it
\* successfully, after every venue was attempted and the routes were
\* computed, with the complete Tour; a run that is in progress or has
\* failed has not written it; the only other write is the reset.
C17_TourWrittenOnceComplete ==
  [][/\ tour' # tour
          => \/ ~tour.isNull /\ tour' = NullTour /\ pc = "idle"
             \/ /\ tour.isNull
                /\ pc # "idle"
                /\ pc' = "idle"
                /\ error' = Null
                /\ \A k \in 0..(Len(extractedData'.venues) - 1) :
                     \/ \E p \in 1..Len(trace') :
                          trace'[p].op = "skip" /\ trace'[p].n = k
                     \/ \E p \in 1..Len(trace') :
                          trace'[p].op = "ret" /\ trace'[p].n = k
                /\ trace'[Len(trace')].op = "routes"
                /\ Len(tour'.venues) = Len(geocodedVenues')
                /\ tour'.routes = CalculateRoutes(tour'.venues)
     /\ (pc # "idle" /\ pc' = "idle")
          => IF error' = Null THEN ~tour'.isNull ELSE tour'.isNull
     /\ pc' # "idle" => tour'.isNull]_vars

\* a run of several venues has published its tour
C17_Witness ==
  /\ pc = "idle"
  /\ ~tour.isNull
  /\ Len(RunVenues) >= 2
  /\ Len(tour.routes) = Len(tour.venues) - 1
  /\ trace[Len(trace)].op = "routes"

\* C18: in Ready (a tour is shown) and in Failed (an error is shown) the
\* user has the reset control, and a reset leaves tour = null,
\* error = null and the skipped list empty.
C18_ResetFromReadyAndFailed ==
  [][/\ (pc' = "idle" /\ (~tour'.isNull \/ error' # Null)) => ResetRendered'
     /\ (~tour.isNull /\ tour'.isNull)
          => (error' = Null /\ skippedVenues' = <<>>)]_vars

\* a provider call that meets a fault: no key, network failure, non-2xx
\* reply, or no match
GeocodeFault(provider, hasKey, reply) ==
  \/ provider # "nominatim" /\ ~hasKey
  \/ reply.kind \in {"network", "http_error", "empty"}

\* C19: geocode never rejects, whatever the provider: on no match, a
\* non-2xx reply, a missing API key or a network failure it returns
\* success = false with an error message; a run in the geocoding loop has
\* no error, and a run that went through the loop ends in Failed exactly
\* when no venue was geocoded.
C19_GeocodeNeverRejects ==
  /\ \A provider \in GeocodeProviders, hasKey \in BOOLEAN,
        reply \in AllProviderReplies :
        LET settled == GeocodeSettled(provider, hasKey, reply)
        IN  /\ ~settled.threw
            /\ GeocodeFault(provider, hasKey, reply)
                 => /\ ~settled.value.success
                    /\ settled.value.error # Null
  /\ pc \in {"primary", "fallback", "delay"} => error = Null
  /\ (pc = "idle" /\ trace # <<>>)
       => /\ error # Null <=> geocodedVenues = <<>>
          /\ error # Null => error = ErrNoGeocode

\* a run whose geocode calls met a failure published a tour all the same
C19_Witness ==
  /\ pc = "idle"
  /\ ~tour.isNull
  /\ error = Null
  /\ \E p \in Positions("ret") : ~trace[p].success

\* C20: the total distance of a list of routes is km = the sum of the
\* routes' distanceKm and miles = the sum of the routes' distanceMiles
\* (in tenths), not the conversion of the summed km.
C20_TotalIsSumOfKmAndSumOfMiles ==
  Len(output) = 2 =>
    /\ output[2].km = SumDistanceKm(input[1])
    /\ output[2].miles = SumDistanceMiles(input[1])

\* C21: kmToMiles(x) < x for every x > 0, and kmToMiles(0) = 0 (x and the
\* result in tenths).
C21_MilesBelowKm ==
  Len(output) = 1 =>
    /\ input[1] > 0 => output[1] < input[1]
    /\ input[1] = 0 => output[1] = 0

\* the venues of a successful reply of POST /api/extract-tour whose two
\* dates are valid
DatedReplyVenues ==
  IF /\ Len(output) >= 1
     /\ input[1].endpoint = "extract-tour"
     /\ output[1].success
  THEN {v \in Range(output[1].data.venues) :
          v.startDate # NaN /\ v.endDate # NaN}
  ELSE {}

\* C22 as stated: every venue returned by extraction has durationDays =
\* ceil((endDate - startDate) / 1 day), for whole-day dates the difference
\* of the day numbers, and durationDays >= 0, for every pair of dates.
C22_DurationNeverNegative ==
  \A v \in DatedReplyVenues :
    /\ v.durationDays = v.endDate - v.startDate
    /\ v.durationDays >= 0

\* C22 as amended: every venue returned by extraction has durationDays =
\* ceil((endDate - startDate) / 1 day); it is >= 0 exactly when endDate is
\* not before startDate, and negative when endDate is before startDate.
C22_DurationIsDateDifference ==
  \A v \in DatedReplyVenues :
    /\ v.durationDays = v.endDate - v.startDate
    /\ v.durationDays >= 0 <=> v.endDate >= v.startDate

\* a reply with a venue that ends after it starts, and one that ends
\* before it starts
C22_Witness ==
  /\ \E v \in DatedReplyVenues : v.endDate > v.startDate /\ v.durationDays > 0
  /\ \E v \in DatedReplyVenues : v.endDate < v.startDate /\ v.durationDays < 0

\* the request passes the checks of the handler and the model is called
\* with the key of the default provider
ModelCalled(req) ==
  /\ req.htmlContent
  /\ req.provider = Null
  /\ req.openaiKey \/ req.anthropicKey

\* C23: extractTourData rejects with the "Cannot connect to backend
\* server" message on a transport failure, with exactly the error of the
\* body on a non-2xx reply with a structured body, and with the generic
\* parse-failure message when the model's reply was not parseable.
C23_FailureKindsDistinct ==
  (Len(output) = 2 /\ input[1].endpoint = "extract-tour") =>
    /\ input[1].rejection # Null
         => output[2].threw /\ output[2].message = ErrCannotConnect
    /\ (input[1].rejection = Null /\ output[1].status \notin 200..299)
         => output[2].threw /\ output[2].message = output[1].error
    /\ (/\ input[1].rejection = Null
        /\ ModelCalled(input[1])
        /\ input[1].upstream.kind = "text"
        /\ ~input[1].upstream.text.parses)
         => output[2].threw /\ output[2].message = ErrParseTour

\* C24: every response of the backend whose body has success = false is
\* sent with a non-2xx status, on the three endpoints.
C24_FailureBodyHasErrorStatus ==
  (Len(output) >= 1 /\ output[1] # NoResponse /\ ~output[1].success)
    => output[1].status \notin 200..299

\* C25: the route from a to b and the route from b to a have the same
\* distanceKm and the same distanceMiles, for all pairs of coordinates.
C25_DistanceSymmetric ==
  Len(output) = 2 =>
    /\ output[1].distanceKm = output[2].distanceKm
    /\ output[1].distanceMiles = output[2].distanceMiles

\* a route between an equatorial point and a pole, a quarter of a great
\* circle, measured both ways
C25_Witness ==
  /\ Len(output) = 2
  /\ input[1][1] # input[2][1]
  /\ input[1][2] # input[2][2]
  /\ output[1].distanceKm = 100075
  /\ output[2].distanceKm = 100075

\* C26: a venue whose primary geocode call returns success with a numeric
\* latitude and longitude, 0 included, is added to the geocoded venues with
\* exactly those coordinates, and no fallback call is made for it.
C26_PrimarySuccessIsKept ==
  [][(/\ pc = "primary"
      /\ geocodeResult'.success
      /\ geocodeResult'.latitude \in Coords \ {NaN}
      /\ geocodeResult'.longitude \in Coords \ {NaN})
       => /\ pc' # "fallback"
          /\ geocodedVenues' =
               Append(geocodedVenues,
                      WithCoordinates(extractedData.venues[i + 1],
                                      geocodeResult'))]_vars

\* C27: if every external call eventually returns, every run that was
\* started eventually ends, in Ready (a tour is shown) or in Failed (an
\* error is shown), with loading false and the progress message empty.
C27_RunTerminates ==
  (pc # "idle") ~> (/\ pc = "idle"
                    /\ ~tour.isNull \/ error # Null
                    /\ ~loading
                    /\ loadingMessage = "")

\* a run over two venues, with the delay between them, has ended in Ready
C27_Witness ==
  /\ pc = "idle"
  /\ ~tour.isNull
  /\ ~loading
  /\ loadingMessage = ""
  /\ \E p \in 1..Len(trace) : trace[p].op = "delay"

\* C28: a tour and an error are never both present: while a run is in
\* flight there is neither a tour nor an error (a run starts only with no
\* tour shown and clears the error; only a failing run sets it), and the
\* reset button is not available while a run is in flight.
C28_TourAndErrorExclusive ==
  /\ ~(~tour.isNull /\ error # Null)
  /\ pc # "idle" => (tour.isNull /\ error = Null /\ ~ResetRendered)

\* a tour is shown, with a skipped venue reported, and no error
C28_Witness ==
  /\ pc = "idle"
  /\ ~tour.isNull
  /\ error = Null
  /\ skippedVenues # <<>>

\* C29: the URL input is cleared when, and only when, the extraction
\* succeeded: a run that ends with a tour leaves the input empty, and a run
\* that ends in Failed leaves the submitted URL in the input.
C29_InputClearedOnlyOnSuccess ==
  [][(pc # "idle" /\ pc' = "idle")
       => IF error' # Null
          THEN url' = url /\ Trim(url') # ""
          ELSE url' = EmptyText]_vars

\* the validation message of the text in the input
ValidationMessage ==
  IF Trim(url) = "" THEN ErrEnterUrl ELSE ErrEnterValidUrl

\* C30 (as stated): whenever an empty or malformed URL is submitted, the
\* message displayed is the validation message, in every state of the
\* orchestrator, also right after a failed run whose error is still set.
C30_ValidationMessageDisplayed ==
  [][(InvalidSubmittable /\ url' = url)
       => DisplayError' = ValidationMessage]_vars

\* C30 (amended): whenever an empty or malformed URL is submitted, the
\* validation message is recorded, and it is the message displayed unless
\* the error of a failed run is still set, which is then displayed.
C30_ValidationMessageUnlessRunError ==
  [][(InvalidSubmittable /\ url' = url)
       => /\ localError' = ValidationMessage
          /\ error = Null => DisplayError' = ValidationMessage
          /\ error # Null => DisplayError' = error]_vars

\* Enter was pressed on the empty input left by a failed run
C30_Witness ==
  /\ pc = "idle"
  /\ error # Null
  /\ localError = ErrEnterUrl

====
